---------------------------- MODULE Spec2Model ----------------------------
(***************************************************************************)
(* A model of the tree-walking evaluator of src/interpreter.rs.            *)
(*                                                                         *)
(* The Rust functions are recursive and synchronous, so each one is an     *)
(* operator of the same name that threads the interpreter state `st`       *)
(* (the heap of environments and the call trace of the current top-level   *)
(* step) and returns a Result: [st, ok, v].  `try!` is the early return on *)
(* ok = FALSE.  An Rc<RefCell<Environment>> is an index into the heap.     *)
(* One action of the state machine is one iteration of the loop of         *)
(* evaluate_values over the top-level program given to interpret.          *)
(*                                                                         *)
(* The lexer of src/lexer.rs is modelled beside it: its parse_* methods    *)
(* are operators on the Lexer struct, and one action is one iteration of   *)
(* the loop of run over the input string `source`.                         *)
(***************************************************************************)
EXTENDS FiniteSets, Integers, Sequences, TLC

VARIABLES heap, status, result, prog, log, source, lexer, outcome

vars == <<heap, status, result, prog, log, source, lexer, outcome>>

(* Longest top-level program (number of nodes handed to interpret). *)
MaxProg == 4

(* Longest input string of tokenize taken from every string of Alphabet. *)
MaxLen == 4

----------------------------------------------------------------------------
(* enum Value *)

VSymbol(s) == [t |-> "sym", s |-> s]
VInteger(n) == [t |-> "int", n |-> n]
VBoolean(b) == [t |-> "bool", b |-> b]
VString(x) == [t |-> "str", x |-> x]
VList(l) == [t |-> "list", l |-> l]
VProcedure(f) == [t |-> "proc", f |-> f]

(* enum Function *)
NativeFunction(name) == [k |-> "native", op |-> name]
SchemeFunction(argNames, body, env) ==
  [k |-> "scheme", argNames |-> argNames, body |-> body, env |-> env]

(* macro null!() *)
null == VList(<<>>)

(* struct RuntimeError: the message is kept as its format string and the   *)
(* values formatted into it.                                               *)
RuntimeError(msg, detail) == [msg |-> msg, detail |-> detail]

(* Result<Value, RuntimeError> together with the state it leaves behind. *)
Ok(st, v) == [st |-> st, ok |-> TRUE, v |-> v]
Err(st, e) == [st |-> st, ok |-> FALSE, v |-> e]

----------------------------------------------------------------------------
(* struct Environment: heap[e] = [parent, values]; parent 0 is None. *)

ROOT == 1

PREDEFINED_FUNCTIONS ==
  {"define", "set!", "lambda", "λ", "if", "+", "-", "and", "or", "list",
   "quote", "quasiquote", "error"}

(* The native a predefined name is bound to: λ is native_lambda too. *)
NativeOf(name) == NativeFunction(IF name = "λ" THEN "lambda" ELSE name)

(* HashMap::insert: adds the key or replaces its value. *)
Insert(values, key, value) ==
  [n \in DOMAIN values \cup {key} |-> IF n = key THEN value ELSE values[n]]

new_root ==
  [parent |-> 0,
   values |-> [name \in PREDEFINED_FUNCTIONS |-> VProcedure(NativeOf(name))]]

(* Environment::new_child: a fresh environment with no bindings. *)
new_child(h, parent) == Append(h, [parent |-> parent, values |-> <<>>])

(* Environment::has: the local map only. *)
Env_has(h, e, key) == key \in DOMAIN h[e].values

(* Environment::get: the local map, else the parent chain. *)
RECURSIVE Env_get(_, _, _)
Env_get(h, e, key) ==
  IF key \in DOMAIN h[e].values
    THEN [some |-> TRUE, val |-> h[e].values[key]]
    ELSE IF h[e].parent # 0
      THEN Env_get(h, h[e].parent, key)
      ELSE [some |-> FALSE, val |-> null]

(* Mutant: set writes where get finds the key, up the parent chain. *)
RECURSIVE Env_set_upward(_, _, _, _)
Env_set_upward(h, e, key, value) ==
  IF ~Env_has(h, e, key) /\ Env_get(h, e, key).some
    THEN Env_set_upward(h, h[e].parent, key, value)
    ELSE [h EXCEPT ![e].values = Insert(h[e].values, key, value)]

(* Environment::set on environment e. *)
Env_set(h, e, key, value) ==
  [h EXCEPT ![e].values = Insert(h[e].values, key, value)]

----------------------------------------------------------------------------
(* The call trace of the current top-level step.  Every event carries the  *)
(* depth d of the evaluate_value call it happens in; the entry and the     *)
(* return of a call carry the heap at that moment.                         *)

Log(st, ev) == [st EXCEPT !.log = Append(st.log, ev)]

(* procEnv.borrow_mut().set / env.borrow_mut().set, traced. *)
SetIn(st, e, key, value, by, d) ==
  [heap |-> Env_set(st.heap, e, key, value),
   log |-> Append(st.log, [k |-> "set", d |-> d, by |-> by, env |-> e,
                           key |-> key, val |-> value,
                           had |-> Env_has(st.heap, e, key)])]

(* Environment::new_child, traced; the new environment is the last one. *)
NewChild(st, parent, d) ==
  [heap |-> new_child(st.heap, parent),
   log |-> Append(st.log, [k |-> "new", d |-> d, env |-> Len(st.heap) + 1,
                           parent |-> parent])]

----------------------------------------------------------------------------
RECURSIVE evaluate_values(_, _, _, _)
RECURSIVE evaluate_values_loop(_, _, _, _, _, _)
RECURSIVE evaluate_value(_, _, _, _)
RECURSIVE quote_value(_, _, _, _, _)
RECURSIVE quote_value_loop(_, _, _, _, _, _, _)
RECURSIVE evaluate_expression(_, _, _, _)
RECURSIVE apply_function(_, _, _, _, _)
RECURSIVE apply_function_loop(_, _, _, _, _, _, _)
RECURSIVE native_plus_loop(_, _, _, _, _, _)
RECURSIVE native_and_loop(_, _, _, _, _, _)
RECURSIVE native_or_loop(_, _, _, _, _)
RECURSIVE native_list_loop(_, _, _, _, _, _)
RECURSIVE native_lambda_names(_, _, _)
RECURSIVE nativeFn(_, _, _, _, _)

(* for value in values.iter() { result = try!(evaluate_value(value, env)) } *)
evaluate_values_loop(values, i, res, env, st, d) ==
  IF i > Len(values) THEN Ok(st, res)
  ELSE LET r == evaluate_value(values[i], env, st, d + 1) IN
       IF ~r.ok THEN r
       ELSE evaluate_values_loop(values, i + 1, r.v, env, r.st, d)

evaluate_values(values, env, st, d) ==
  evaluate_values_loop(values, 1, null, env, st, d)

evaluate_value(value, env, st, d) ==
  LET s0 == Log(st, [k |-> "eval", d |-> d, v |-> value, env |-> env,
                     h |-> st.heap])
      r == CASE value.t = "sym" ->
                  LET found == Env_get(s0.heap, env, value.s) IN
                  IF found.some THEN Ok(s0, found.val)
                  ELSE Err(s0, RuntimeError("Identifier not found",
                                            <<value>>))
             [] value.t = "int" -> Ok(s0, VInteger(value.n))
             [] value.t = "bool" -> Ok(s0, VBoolean(value.b))
             [] value.t = "str" -> Ok(s0, VString(value.x))
             [] value.t = "list" ->
                  IF Len(value.l) > 0
                    THEN evaluate_expression(value.l, env, s0, d)
                    ELSE Ok(s0, null)
             [] value.t = "proc" -> Ok(s0, VProcedure(value.f))
  IN  [r EXCEPT !.st = Log(r.st, [k |-> "ret", d |-> d, ok |-> r.ok,
                                  v |-> r.v, h |-> r.st.heap])]

(* Mutant: only a list of two elements counts as an unquote form. *)
IsUnquote_pairs(vec) == Len(vec) = 2 /\ vec[1] = VSymbol("unquote")

(* *vec.get(0) == VSymbol("unquote") *)
IsUnquote(vec) == Len(vec) > 0 /\ vec[1] = VSymbol("unquote")

quote_value_loop(vec, i, res, quasi, env, st, d) ==
  IF i > Len(vec) THEN Ok(st, VList(res))
  ELSE LET r == quote_value(vec[i], quasi, env, st, d) IN
       IF ~r.ok THEN r
       ELSE quote_value_loop(vec, i + 1, Append(res, r.v), quasi, env, r.st, d)

quote_value(value, quasi, env, st, d) ==
  CASE value.t = "sym" -> Ok(st, VSymbol(value.s))
    [] value.t = "int" -> Ok(st, VInteger(value.n))
    [] value.t = "bool" -> Ok(st, VBoolean(value.b))
    [] value.t = "str" -> Ok(st, VString(value.x))
    [] value.t = "list" ->
         IF quasi /\ IsUnquote(value.l)
           THEN IF Len(value.l) # 2
                  THEN Err(st, RuntimeError(
                         "Must supply exactly one argument to unquote",
                         value.l))
                  ELSE evaluate_value(value.l[2], env, st, d + 1)
           ELSE quote_value_loop(value.l, 1, <<>>, quasi, env, st, d)
    [] value.t = "proc" -> Ok(st, VProcedure(value.f))

evaluate_expression(values, env, st, d) ==
  IF Len(values) = 0
    THEN Err(st, RuntimeError("Can't evaluate an empty expression", values))
    ELSE LET first == evaluate_value(values[1], env, st, d + 1) IN
         IF ~first.ok THEN first
         ELSE IF first.v.t = "proc"
           THEN apply_function(first.v.f, Tail(values), env, first.st, d)
           ELSE Err(first.st, RuntimeError(
                  "First element in an expression must be a procedure",
                  <<first.v>>))


(* Mutant: best effort, an element that fails is left out of the list. *)
native_list_loop_lenient(args, i, elements, env, st, d) ==
  IF i > Len(args) THEN Ok(st, VList(elements))
  ELSE LET v == evaluate_value(args[i], env, st, d + 1) IN
       IF ~v.ok THEN native_list_loop(args, i + 1, elements, env, v.st, d)
       ELSE native_list_loop(args, i + 1, Append(elements, v.v), env, v.st, d)

(* Mutant: the right operand of - is evaluated before the left one. *)
native_minus_right_first(args, env, st, d) ==
  IF Len(args) # 2
    THEN Err(st, RuntimeError("Must supply exactly two arguments to -", args))
  ELSE LET r == evaluate_value(args[2], env, st, d + 1) IN
       IF ~r.ok THEN r
       ELSE LET l == evaluate_value(args[1], env, r.st, d + 1) IN
            IF ~l.ok THEN l
            ELSE IF l.v.t # "int" \/ r.v.t # "int"
              THEN Err(l.st, RuntimeError("Unexpected value during -", args))
              ELSE Ok(l.st, VInteger(l.v.n - r.v.n))

(* for (name, arg) in argNames.iter().zip(args.iter()): the argument is    *)
(* evaluated in the caller's env and bound in procEnv.                     *)
apply_function_loop(argNames, args, i, procEnv, env, st, d) ==
  IF i > Len(argNames) THEN Ok(st, null)
  ELSE LET val == evaluate_value(args[i], env, st, d + 1) IN
       IF ~val.ok THEN val
       ELSE apply_function_loop(argNames, args, i + 1, procEnv, env,
                                SetIn(val.st, procEnv, argNames[i], val.v,
                                      "apply", d), d)

(* Mutant: dynamic scoping, the call environment hangs off the caller's. *)
ProcEnvParent_caller(funcEnv, env) == env

(* The environment a closure's call environment is a child of. *)
ProcEnvParent(funcEnv, env) == funcEnv

apply_function(func, args, env, st, d) ==
  LET s0 == Log(st, [k |-> "apply", d |-> d, f |-> func, args |-> args,
                     env |-> env, h |-> st.heap])
  IN  IF func.k = "native" THEN nativeFn(func.op, args, env, s0, d)
      ELSE IF Len(func.argNames) # Len(args)
        THEN Err(s0, RuntimeError("Must supply exactly {} arguments to function",
                                  args))
        ELSE LET s1 == NewChild(s0, ProcEnvParent(func.env, env), d)
                 procEnv == Len(s1.heap)
                 bound == apply_function_loop(func.argNames, args, 1, procEnv,
                                              env, s1, d)
             IN  IF ~bound.ok THEN bound
                 ELSE evaluate_values(func.body, procEnv, bound.st, d)

----------------------------------------------------------------------------
(* The native procedures. *)

native_define(args, env, st, d) ==
  IF Len(args) # 2
    THEN Err(st, RuntimeError("Must supply exactly two arguments to define",
                              args))
  ELSE IF args[1].t # "sym"
    THEN Err(st, RuntimeError("Unexpected value for name in define", args))
  ELSE LET name == args[1].s
           alreadyDefined == Env_has(st.heap, env, name)
       IN  IF ~alreadyDefined
             THEN LET val == evaluate_value(args[2], env, st, d + 1) IN
                  IF ~val.ok THEN val
                  ELSE Ok(SetIn(val.st, env, name, val.v, "define", d), null)
             ELSE Err(st, RuntimeError("Duplicate define", <<VSymbol(name)>>))

native_set(args, env, st, d) ==
  IF Len(args) # 2
    THEN Err(st, RuntimeError("Must supply exactly two arguments to set!",
                              args))
  ELSE IF args[1].t # "sym"
    THEN Err(st, RuntimeError("Unexpected value for name in set!", args))
  ELSE LET name == args[1].s
           alreadyDefined == Env_has(st.heap, env, name)
       IN  IF alreadyDefined
             THEN LET val == evaluate_value(args[2], env, st, d + 1) IN
                  IF ~val.ok THEN val
                  ELSE Ok(SetIn(val.st, env, name, val.v, "set!", d), null)
             ELSE Err(st, RuntimeError("Can't set! an undefined variable",
                                       <<VSymbol(name)>>))

(* for item in list.iter(): every parameter must be a symbol. *)
native_lambda_names(list, i, names) ==
  IF i > Len(list) THEN [ok |-> TRUE, v |-> names]
  ELSE IF list[i].t = "sym"
    THEN native_lambda_names(list, i + 1, Append(names, list[i].s))
    ELSE [ok |-> FALSE,
          v |-> RuntimeError("Unexpected argument in lambda arguments",
                             <<list[i]>>)]

(* Mutant: the closure captures a copy of the environment as it is now. *)
native_lambda_snapshot(args, env, st, d) ==
  IF Len(args) < 2
    THEN Err(st, RuntimeError("Must supply at least two arguments to lambda",
                              args))
  ELSE IF args[1].t # "list"
    THEN Err(st, RuntimeError("Unexpected value for arguments in lambda",
                              args))
  ELSE LET argNames == native_lambda_names(args[1].l, 1, <<>>) IN
       IF ~argNames.ok THEN Err(st, argNames.v)
       ELSE Ok([st EXCEPT !.heap = Append(st.heap, st.heap[env])],
               VProcedure(SchemeFunction(argNames.v, Tail(args),
                                         Len(st.heap) + 1)))

native_lambda(args, env, st, d) ==
  IF Len(args) < 2
    THEN Err(st, RuntimeError("Must supply at least two arguments to lambda",
                              args))
  ELSE IF args[1].t # "list"
    THEN Err(st, RuntimeError("Unexpected value for arguments in lambda",
                              args))
  ELSE LET argNames == native_lambda_names(args[1].l, 1, <<>>) IN
       IF ~argNames.ok THEN Err(st, argNames.v)
       ELSE Ok(st, VProcedure(SchemeFunction(argNames.v, Tail(args), env)))

(* Mutant: the integer 0 and the empty list count as false too. *)
IfBranch_falsy(c) ==
  IF c \in {VBoolean(FALSE), VInteger(0), VList(<<>>)} THEN 3 ELSE 2

(* match condition { VBoolean(false) => ..., _ => ... } *)
IsFalse(v) == v = VBoolean(FALSE)

(* The operand native_if evaluates after a condition of value c. *)
IfBranch(c) == IF IsFalse(c) THEN 3 ELSE 2

native_if(args, env, st, d) ==
  IF Len(args) # 3
    THEN Err(st, RuntimeError("Must supply exactly three arguments to if",
                              args))
  ELSE LET condition == evaluate_value(args[1], env, st, d + 1) IN
       IF ~condition.ok THEN condition
       ELSE evaluate_value(args[IfBranch(condition.v)], env, condition.st,
                           d + 1)

(* The sums and differences of the programs modelled stay far inside the   *)
(* range of int, so the arithmetic is that of the integers.                *)
native_plus_loop(args, i, sum, env, st, d) ==
  IF i > Len(args) THEN Ok(st, VInteger(sum))
  ELSE LET v == evaluate_value(args[i], env, st, d + 1) IN
       IF ~v.ok THEN v
       ELSE IF v.v.t = "int"
         THEN native_plus_loop(args, i + 1, sum + v.v.n, env, v.st, d)
         ELSE Err(v.st, RuntimeError("Unexpected value during +", <<args[i]>>))

(* Mutant: + counts its operands only after it has evaluated them. *)
native_plus_operands_first(args, env, st, d) ==
  LET r == native_plus_loop(args, 1, 0, env, st, d) IN
  IF ~r.ok THEN r
  ELSE IF Len(args) < 2
    THEN Err(r.st, RuntimeError("Must supply at least two arguments to +",
                                args))
    ELSE r

native_plus(args, env, st, d) ==
  IF Len(args) < 2
    THEN Err(st, RuntimeError("Must supply at least two arguments to +", args))
    ELSE native_plus_loop(args, 1, 0, env, st, d)

native_minus(args, env, st, d) ==
  IF Len(args) # 2
    THEN Err(st, RuntimeError("Must supply exactly two arguments to -", args))
  ELSE LET l == evaluate_value(args[1], env, st, d + 1) IN
       IF ~l.ok THEN l
       ELSE LET r == evaluate_value(args[2], env, l.st, d + 1) IN
            IF ~r.ok THEN r
            ELSE IF l.v.t # "int" \/ r.v.t # "int"
              THEN Err(r.st, RuntimeError("Unexpected value during -", args))
              ELSE Ok(r.st, VInteger(l.v.n - r.v.n))

(* Mutant: and evaluates every operand. *)
AndStops_never(v) == FALSE

(* Whether native_and returns at once after an operand of value v. *)
AndStops(v) == IsFalse(v)

native_and_loop(args, i, res, env, st, d) ==
  IF i > Len(args) THEN Ok(st, res)
  ELSE LET v == evaluate_value(args[i], env, st, d + 1) IN
       IF ~v.ok THEN v
       ELSE IF AndStops(v.v) THEN Ok(v.st, VBoolean(FALSE))
       ELSE native_and_loop(args, i + 1, v.v, env, v.st, d)

native_and(args, env, st, d) ==
  native_and_loop(args, 1, VBoolean(TRUE), env, st, d)

(* Whether native_or returns at once after an operand of value v. *)
OrStops(v) == ~IsFalse(v)

native_or_loop(args, i, env, st, d) ==
  IF i > Len(args) THEN Ok(st, VBoolean(FALSE))
  ELSE LET v == evaluate_value(args[i], env, st, d + 1) IN
       IF ~v.ok THEN v
       ELSE IF OrStops(v.v) THEN Ok(v.st, v.v)
       ELSE native_or_loop(args, i + 1, env, v.st, d)

native_or(args, env, st, d) == native_or_loop(args, 1, env, st, d)

native_list_loop(args, i, elements, env, st, d) ==
  IF i > Len(args) THEN Ok(st, VList(elements))
  ELSE LET v == evaluate_value(args[i], env, st, d + 1) IN
       IF ~v.ok THEN v
       ELSE native_list_loop(args, i + 1, Append(elements, v.v), env, v.st, d)

native_list(args, env, st, d) == native_list_loop(args, 1, <<>>, env, st, d)

native_quote(args, env, st, d) ==
  IF Len(args) # 1
    THEN Err(st, RuntimeError("Must supply exactly one argument to quote",
                              args))
    ELSE quote_value(args[1], FALSE, env, st, d)

native_quasiquote(args, env, st, d) ==
  IF Len(args) # 1
    THEN Err(st, RuntimeError("Must supply exactly one argument to quasiquote",
                              args))
    ELSE quote_value(args[1], TRUE, env, st, d)

native_error(args, env, st, d) ==
  IF Len(args) # 1
    THEN Err(st, RuntimeError("Must supply exactly one arguments to error",
                              args))
  ELSE LET e == evaluate_value(args[1], env, st, d + 1) IN
       IF ~e.ok THEN e
       ELSE Err(e.st, RuntimeError("{}", <<e.v>>))

(* The call through the function pointer of a NativeFunction. *)
nativeFn(op, args, env, st, d) ==
  CASE op = "define" -> native_define(args, env, st, d)
    [] op = "set!" -> native_set(args, env, st, d)
    [] op = "lambda" -> native_lambda(args, env, st, d)
    [] op = "if" -> native_if(args, env, st, d)
    [] op = "+" -> native_plus(args, env, st, d)
    [] op = "-" -> native_minus(args, env, st, d)
    [] op = "and" -> native_and(args, env, st, d)
    [] op = "or" -> native_or(args, env, st, d)
    [] op = "list" -> native_list(args, env, st, d)
    [] op = "quote" -> native_quote(args, env, st, d)
    [] op = "quasiquote" -> native_quasiquote(args, env, st, d)
    [] op = "error" -> native_error(args, env, st, d)


----------------------------------------------------------------------------
(* enum Node of the parser, and Value::from_node / Value::from_nodes. *)

NIdentifier(s) == [t |-> "NIdentifier", s |-> s]
NInteger(n) == [t |-> "NInteger", n |-> n]
NBoolean(b) == [t |-> "NBoolean", b |-> b]
NString(x) == [t |-> "NString", x |-> x]
NList(l) == [t |-> "NList", l |-> l]

RECURSIVE from_node(_)
from_nodes(nodes) == [i \in 1..Len(nodes) |-> from_node(nodes[i])]

from_node(node) ==
  CASE node.t = "NIdentifier" -> VSymbol(node.s)
    [] node.t = "NInteger" -> VInteger(node.n)
    [] node.t = "NBoolean" -> VBoolean(node.b)
    [] node.t = "NString" -> VString(node.x)
    [] node.t = "NList" -> VList(from_nodes(node.l))

----------------------------------------------------------------------------
(* The programs interpret is run on: every sequence, of at most MaxProg    *)
(* nodes, of the expressions of one family.                                *)

Sym(s) == NIdentifier(s)
Num(n) == NInteger(n)
Call(f, args) == NList(<<Sym(f)>> \o args)
Lambda(params, body) == NList(<<Sym("lambda"), NList(params)>> \o body)
Define(name, e) == Call("define", <<Sym(name), e>>)
SetBang(name, e) == Call("set!", <<Sym(name), e>>)
Error(x) == Call("error", <<NString(x)>>)

(* (lambda () x): reads x free *)
Reader == Lambda(<<>>, <<Sym("x")>>)
(* (lambda (y) (list x y)): reads x free and y as its parameter *)
Pairer == Lambda(<<Sym("y")>>, <<Call("list", <<Sym("x"), Sym("y")>>)>>)
(* (lambda (x) (k x)): calls k from a scope of its own that binds x *)
Caller == Lambda(<<Sym("x")>>, <<Call("k", <<Sym("x")>>)>>)
(* (lambda () (set! x 3)): assigns to the x of an enclosing scope *)
Setter == Lambda(<<>>, <<SetBang("x", Num(3))>>)
(* (lambda () (define x 9) x): defines an x of its own *)
Definer == Lambda(<<>>, <<Define("x", Num(9)), Sym("x")>>)
(* (define x (and (define x 1) 2)): the operand defines the name itself *)
DefineTwice == Define("x", Call("and", <<Define("x", Num(1)), Num(2)>>))

(* Scoping: bindings, closures and their calls. *)
ScopeExprs ==
  { Define("x", Num(1)), SetBang("x", Num(2)), SetBang("x", Sym("x")),
    DefineTwice,
    Define("r", Reader), Call("r", <<>>),
    Define("k", Pairer), Define("g", Caller), Call("g", <<Num(5)>>),
    Define("s", Setter), Call("s", <<>>),
    Define("h", Definer), Call("h", <<>>) }

(* (and (define y 1) 5): binds y and yields 5 *)
BindY == Call("and", <<Define("y", Num(1)), Num(5)>>)
(* (and (define y 1) #f): binds y and yields #f *)
BindYFalse == Call("and", <<Define("y", Num(1)), NBoolean(FALSE)>>)
(* (lambda (a b) b) *)
Second == Lambda(<<Sym("a"), Sym("b")>>, <<Sym("b")>>)
(* (lambda () (define z 1) (error "in") (define v 1)) *)
FailingBody ==
  Lambda(<<>>, <<Define("z", Num(1)), Error("in"), Define("v", Num(1))>>)
(* (list (define z 1) (error "a") (define v 1)) *)
FailingList ==
  Call("list", <<Define("z", Num(1)), Error("a"), Define("v", Num(1))>>)
(* (p (define z 1) (error "arg")) *)
FailingArgs == Call("p", <<Define("z", Num(1)), Error("arg")>>)

(* Evaluation order and failure: the second operand reads what the first   *)
(* one binds; an operand or a body expression fails between two defines.   *)
OrderExprs ==
  { Call("+", <<BindY, Sym("y")>>), Call("-", <<BindY, Sym("y")>>),
    Call("list", <<BindY, Sym("y")>>), Call("and", <<BindY, Sym("y")>>),
    Call("or", <<BindYFalse, Sym("y")>>),
    Define("p", Second), Call("p", <<BindY, Sym("y")>>),
    Error("boom"), FailingList, FailingArgs,
    Define("q", FailingBody), Call("q", <<>>), Sym("z") }

(* (if c (define a 1) (define b 2)) *)
IfDefine(c) == Call("if", <<c, Define("a", Num(1)), Define("b", Num(2))>>)

(* The conditions tried: #f, #t, 0, the empty list, a string, a procedure  *)
(* and an unbound name.                                                    *)
Conditions ==
  { NBoolean(FALSE), NBoolean(TRUE), Num(0), NList(<<>>), NString("s"),
    Sym("if"), Sym("nope") }

(* Branching: and, or and if, with operands that fail or bind when they    *)
(* are evaluated.                                                          *)
BranchExprs ==
  { Call("and", <<NBoolean(FALSE), Error("boom")>>),
    Call("or", <<Num(1), Error("boom")>>),
    Call("and", <<>>), Call("or", <<>>),
    Call("and", <<Num(0), Define("c", Num(3)), Sym("c")>>),
    Call("or", <<NBoolean(FALSE), Sym("c"), Define("c", Num(4))>>),
    Call("or", <<NBoolean(FALSE), NBoolean(FALSE)>>) }
  \cup {IfDefine(c) : c \in Conditions}

Quote(v) == Call("quote", <<v>>)
Quasi(v) == Call("quasiquote", <<v>>)
Unquote(args) == Call("unquote", args)

(* Quoting: data with unquote forms of one argument, of none and of two,   *)
(* nested, and with effects; each under quasiquote, some under quote.      *)
QuoteData ==
  { NList(<<Sym("a"), Unquote(<<Sym("b")>>)>>),
    NList(<<Unquote(<<Define("c", Num(1))>>), Unquote(<<Sym("c")>>)>>),
    NList(<<Num(1), Unquote(<<Define("c", Num(2))>>), Unquote(<<>>)>>),
    NList(<<Unquote(<<Sym("b"), Sym("b")>>), Unquote(<<Define("c", Num(3))>>)>>),
    Quasi(NList(<<NString("s"), NList(<<>>), Unquote(<<Sym("b")>>)>>)),
    Unquote(<<Quote(Unquote(<<Sym("b")>>))>>),
    Sym("b") }

LiteralData ==
  { NList(<<Sym("a"), Unquote(<<Sym("b")>>)>>),
    NList(<<Unquote(<<Define("c", Num(1))>>), Unquote(<<>>)>>),
    Sym("b") }

QuoteExprs ==
  {Define("b", Num(5)), Call("quote", <<>>), Call("quasiquote", <<>>)}
  \cup {Quote(v) : v \in LiteralData} \cup {Quasi(v) : v \in QuoteData}

(* (define z 1): an operand that binds z when it is evaluated *)
BindZ == Define("z", Num(1))
(* (lambda (a) a) *)
Same == Lambda(<<Sym("a")>>, <<Sym("a")>>)

(* Calls with as many operands as the callee takes. *)
RightArity ==
  { Define("i", Same), Call("i", <<BindZ>>), Call("+", <<Num(1), Num(2)>>),
    Call("-", <<Num(3), Num(1)>>), Call("set!", <<Sym("z"), Num(2)>>),
    Call("if", <<NBoolean(TRUE), Num(1), BindZ>>),
    Call("error", <<BindZ>>) }

(* Calls with one operand too few or too many; the operands would bind z   *)
(* if they were evaluated.                                                 *)
WrongArity ==
  { Call("i", <<>>), Call("i", <<BindZ, Num(2)>>),
    Call("define", <<Sym("z")>>), Call("define", <<Sym("z"), Num(1), Num(2)>>),
    Call("set!", <<Sym("z")>>), Call("set!", <<Sym("z"), BindZ, Num(2)>>),
    Call("-", <<BindZ>>), Call("-", <<BindZ, Num(1), Num(2)>>),
    Call("if", <<BindZ, BindZ>>), Call("if", <<BindZ, Num(1), Num(2), Num(3)>>),
    Call("quote", <<>>), Call("quote", <<Sym("a"), Sym("b")>>),
    Call("quasiquote", <<>>),
    Call("quasiquote", <<Unquote(<<BindZ>>), Sym("b")>>),
    Call("error", <<>>), Call("error", <<BindZ, Num(2)>>),
    Call("+", <<>>), Call("+", <<Call("and", <<BindZ, Num(5)>>)>>),
    Call("lambda", <<>>), Call("lambda", <<NList(<<Sym("a")>>)>>) }

(* Arity: every callee with an arity, called within it and outside it. *)
ArityExprs == RightArity \cup WrongArity

----------------------------------------------------------------------------
(* src/lexer.rs.  A char is a string of one character, a String the        *)
(* sequence of its chars, and None the absent Option<char>.                *)

None == "None"

(* The character classes of the match patterns of run and of parse_*. *)
Whitespace == {" ", "\t", "\n", "\r"}
Digits == {"0", "1", "2", "3", "4", "5", "6", "7", "8", "9"}
Letters ==
  { "A", "B", "C", "D", "E", "F", "G", "H", "I", "J", "K", "L", "M", "N",
    "O", "P", "Q", "R", "S", "T", "U", "V", "W", "X", "Y", "Z",
    "a", "b", "c", "d", "e", "f", "g", "h", "i", "j", "k", "l", "m", "n",
    "o", "p", "q", "r", "s", "t", "u", "v", "w", "x", "y", "z" }
Initials ==
  Letters \cup {"!", "$", "%", "&", "*", "/", ":", "<", "=", ">", "?", "_",
                "^"}
Subsequents == Initials \cup Digits \cup {"+", "-", "#"}

(* enum Token *)
OpenParen == [t |-> "OpenParen"]
CloseParen == [t |-> "CloseParen"]
QuoteToken == [t |-> "Quote"]
Identifier(s) == [t |-> "Identifier", s |-> s]
Integer(n) == [t |-> "Integer", n |-> n]
Boolean(b) == [t |-> "Boolean", b |-> b]
String(s) == [t |-> "String", s |-> s]

(* struct SyntaxError; c is the character formatted into the message. *)
SyntaxError(message, c, line, column) ==
  [message |-> message, c |-> c, line |-> line, column |-> column]

(* An int is kept as its sign and its decimal magnitude without leading    *)
(* zeros: the values of a 64-bit int are beyond the integers at hand here. *)
IntMax ==
  << "9", "2", "2", "3", "3", "7", "2", "0", "3", "6", "8", "5", "4", "7",
     "7", "5", "8", "0", "7" >>

DigitValue(c) ==
  CHOOSE n \in 0..9 :
    <<"0", "1", "2", "3", "4", "5", "6", "7", "8", "9">>[n + 1] = c

RECURSIVE StripZeros(_)
StripZeros(s) ==
  IF Len(s) > 1 /\ s[1] = "0" THEN StripZeros(Tail(s)) ELSE s

(* a > b, for magnitudes of the same length *)
RECURSIVE Exceeds(_, _)
Exceeds(a, b) ==
  IF a = <<>> THEN FALSE
  ELSE IF a[1] # b[1] THEN DigitValue(a[1]) > DigitValue(b[1])
  ELSE Exceeds(Tail(a), Tail(b))

(* from_str::<int> of a string of digits, an Option<int>: None (some is    *)
(* FALSE) when the string is empty or the number does not fit an int.      *)
from_str(s) ==
  LET mag == StripZeros(s)
      none == [some |-> FALSE, v |-> None]
  IN  IF s = <<>> THEN none
      ELSE IF Len(mag) > Len(IntMax) THEN none
      ELSE IF Len(mag) = Len(IntMax) /\ Exceeds(mag, IntMax) THEN none
      ELSE [some |-> TRUE, v |-> [neg |-> FALSE, mag |-> mag]]

(* -1 * val *)
Negate(val) == IF val.mag = <<"0">> THEN val ELSE [val EXCEPT !.neg = ~@]

(* Lexer { chars: s.chars().peekable(), current: None, tokens: Vec::new(), *)
(* line: 1, column: 0 }.  chars is the number of characters the iterator   *)
(* has handed out, the end of input included: once it is running it is the *)
(* index in source of `current`.  ends is history, not a field of the      *)
(* struct: for each token, the index in source of its last character.      *)
NewLexer ==
  [chars |-> 0, current |-> None, tokens |-> <<>>, line |-> 1, column |-> 0,
   ends |-> <<>>]

(* self.chars.next() *)
NextChar(lx) ==
  IF lx.chars < Len(source) THEN source[lx.chars + 1] ELSE None

(* Mutant: columns are counted from 0 on every line after the first. *)
advance_from_zero(lx) ==
  LET moved == IF lx.current = "\n"
                 THEN [lx EXCEPT !.line = @ + 1, !.column = 0]
                 ELSE [lx EXCEPT !.column = @ + 1]
  IN  [moved EXCEPT !.current = NextChar(lx),
                    !.chars = IF @ <= Len(source) THEN @ + 1 ELSE @]

advance(lx) ==
  LET moved == IF lx.current = "\n"
                 THEN [lx EXCEPT !.line = @ + 1, !.column = 1]
                 ELSE [lx EXCEPT !.column = @ + 1]
  IN  [moved EXCEPT !.current = NextChar(lx),
                    !.chars = IF @ <= Len(source) THEN @ + 1 ELSE @]

peek(lx) == NextChar(lx)

(* self.tokens.push(token), for a token whose last character is at `last`. *)
Push(lx, token, last) ==
  [lx EXCEPT !.tokens = Append(@, token), !.ends = Append(@, last)]

(* Result<T, SyntaxError> with the lexer it leaves behind; Panic is the    *)
(* failure of the task in unwrap().                                        *)
Done(lx, v) == [lx |-> lx, k |-> "Ok", v |-> v]
syntax_error(lx, message, c) ==
  [lx |-> lx, k |-> "Err", v |-> SyntaxError(message, c, lx.line, lx.column)]
Panic(lx) == [lx |-> lx, k |-> "panic", v |-> None]

RECURSIVE parse_number_loop(_, _)
parse_number_loop(lx, s) ==
  IF lx.current \in Digits
    THEN parse_number_loop(advance(lx), Append(s, lx.current))
    ELSE [lx |-> lx, s |-> s]

(* Ok(from_str::from_str(s.as_slice()).unwrap()) *)
parse_number(lx) ==
  LET r == parse_number_loop(lx, <<>>) IN
  IF from_str(r.s).some THEN Done(r.lx, from_str(r.s).v) ELSE Panic(r.lx)

parse_boolean(lx) ==
  IF lx.current # "#"
    THEN syntax_error(lx, "Unexpected character", lx.current)
  ELSE LET l1 == advance(lx) IN
       IF l1.current = "t" THEN Done(advance(l1), TRUE)
       ELSE IF l1.current = "f" THEN Done(advance(l1), FALSE)
       ELSE syntax_error(l1, "Unexpected character when looking for t/f",
                         l1.current)

RECURSIVE parse_identifier_loop(_, _)
parse_identifier_loop(lx, s) ==
  IF lx.current \in Subsequents
    THEN parse_identifier_loop(advance(lx), Append(s, lx.current))
    ELSE Done(lx, s)

parse_identifier(lx) == parse_identifier_loop(lx, <<>>)

RECURSIVE parse_string_loop(_, _)
parse_string_loop(lx, s) ==
  IF lx.current = None
    THEN syntax_error(lx, "Expected end quote, but found EOF instead", None)
  ELSE IF lx.current = "\"" THEN Done(advance(lx), s)
  ELSE parse_string_loop(advance(lx), Append(s, lx.current))

parse_string(lx) ==
  IF lx.current # "\""
    THEN syntax_error(lx, "Unexpected character", lx.current)
    ELSE parse_string_loop(advance(lx), <<>>)

(* Mutant: an open parenthesis ends a token too. *)
parse_delimiter_lenient(lx) ==
  IF lx.current = ")"
    THEN Done(advance(Push(lx, CloseParen, lx.chars)), <<>>)
  ELSE IF lx.current \in Whitespace \cup {"("} THEN Done(lx, <<>>)
  ELSE IF lx.current # None
    THEN syntax_error(lx, "Unexpected character when looking for a delimiter",
                      lx.current)
  ELSE Done(lx, <<>>)

parse_delimiter(lx) ==
  IF lx.current = ")"
    THEN Done(advance(Push(lx, CloseParen, lx.chars)), <<>>)
  ELSE IF lx.current \in Whitespace THEN Done(lx, <<>>)
  ELSE IF lx.current # None
    THEN syntax_error(lx, "Unexpected character when looking for a delimiter",
                      lx.current)
  ELSE Done(lx, <<>>)

(* let val = try!(parse); self.tokens.push(token(val));                    *)
(* try!(self.parse_delimiter()): the token ends just before `current`.     *)
PushParsed(lx, token) == parse_delimiter(Push(lx, token, lx.chars - 1))

(* The arms of the match on the current character in the loop of run. *)
OnOpenParen(lx) == Done(advance(Push(lx, OpenParen, lx.chars)), <<>>)

OnCloseParen(lx) == Done(advance(Push(lx, CloseParen, lx.chars)), <<>>)

OnQuote(lx) == Done(advance(Push(lx, QuoteToken, lx.chars)), <<>>)

OnSign(lx) ==
  LET c == lx.current IN
  IF peek(lx) \in Digits
    THEN LET val == parse_number(advance(lx)) IN
         IF val.k # "Ok" THEN val
         ELSE PushParsed(val.lx, Integer(IF c = "-" THEN Negate(val.v)
                                         ELSE val.v))
    ELSE parse_delimiter(advance(Push(lx, Identifier(<<c>>), lx.chars)))

OnHash(lx) ==
  LET val == parse_boolean(lx) IN
  IF val.k # "Ok" THEN val ELSE PushParsed(val.lx, Boolean(val.v))

OnInitial(lx) ==
  LET val == parse_identifier(lx) IN
  IF val.k # "Ok" THEN val ELSE PushParsed(val.lx, Identifier(val.v))

OnDigit(lx) ==
  LET val == parse_number(lx) IN
  IF val.k # "Ok" THEN val ELSE PushParsed(val.lx, Integer(val.v))

OnStringQuote(lx) ==
  LET val == parse_string(lx) IN
  IF val.k # "Ok" THEN val ELSE PushParsed(val.lx, String(val.v))

OnWhitespace(lx) == Done(advance(lx), <<>>)

OnOther(lx) == syntax_error(lx, "Unexpected character", lx.current)

(* The inputs tokenize is run on: every string of at most MaxLen           *)
(* characters of Alphabet, the inputs of the tests of src/lexer.rs, and    *)
(* digit runs at and beyond the range of int.                              *)
Alphabet == {"(", ")", "'", "+", "#", "t", "1", "\"", " ", "\n", "\\"}

ShortInputs == UNION {[1..n -> Alphabet] : n \in 0..MaxLen}

TestInputs ==
  { <<"(", "+", " ", "2", " ", "3", ")">>,
    <<"(", "+", " ", "2", "1", " ", "3", "2", "5", ")">>,
    <<"(", "-", " ", "7", " ", "4", "2", ")">>,
    <<"(", "+", " ", "-", "8", " ", "+", "2", " ", "-", "3", "3", ")">>,
    <<"#", "t">>,
    <<"#", "f">>,
    <<"*">>,
    <<"<">>,
    <<"<", "=">>,
    <<"i", "f">>,
    <<"w", "h", "i", "l", "e">>,
    <<"$", "t", "$", "%", "*", "=", ":", "t", "0", "5", "9", "s">>,
    <<"\"", "h", "e", "l", "l", "o", "\"">>,
    <<"\"", "a", " ", "_", " ", "$", " ", "s", "n", "t", "h", "o", "e", "a",
       "u", "(", "*", "&", "G", "#", "$", "(", ")", "*", "^", "!", "\"">>,
    <<"\"", "t", "r", "u", "n", "c", "a", "t", "e", "d">>,
    <<"(", "+", " ", "1", " ", "1", ")", "\n", "(", "+", "\n", " ", " ",
       " ", " ", "2", "\t", "2", " ", "\n", " ", ")", "\r", "\n", " ", " ",
       "\n">>,
    <<"(", "\\", ")">>,
    <<"(", "+", "-", ")">>,
    <<"(", "-", "2", "2", "+", ")">>,
    <<"(", "2", "2", "+", ")">>,
    <<"(", "+", " ", "2", " ", "3", ")", "\n", "(", "+", " ", "1", " ", "2",
       "-", ")">>,
    <<"'", "(", "a", ")">>,
    <<"'", "(", "'", "a", " ", "'", "b", ")">>,
    <<"(", "l", "i", "s", "t", " ", "'", "a", " ", "b", ")">>,
    <<"(", "d", "e", "f", "i", "n", "e", " ", "(", "l", "i", "s", "t", "-",
       "o", "f", "-", "s", "q", "u", "a", "r", "e", "s", " ", "n", ")",
       "\n", " ", " ", "(", "l", "e", "t", " ", "l", "o", "o", "p", " ",
       "(", "(", "i", " ", "n", ")", " ", "(", "r", "e", "s", " ", "(", "l",
       "i", "s", "t", ")", ")", ")", "\n", " ", " ", " ", " ", "(", "i",
       "f", " ", "(", "<", " ", "i", " ", "0", ")", "\n", " ", " ", " ",
       " ", " ", " ", " ", " ", "r", "e", "s", "\n", " ", " ", " ", " ",
       " ", " ", " ", " ", "(", "l", "o", "o", "p", " ", "(", "-", " ", "i",
       " ", "1", ")", " ", "(", "c", "o", "n", "s", " ", "(", "*", " ", "i",
       " ", "i", ")", " ", "r", "e", "s", ")", ")", ")", ")", ")">> }

NumberInputs ==
  { <<"9", "2", "2", "3", "3", "7", "2", "0", "3", "6", "8", "5", "4", "7",
       "7", "5", "8", "0", "7">>,
    <<"9", "2", "2", "3", "3", "7", "2", "0", "3", "6", "8", "5", "4", "7",
       "7", "5", "8", "0", "8">>,
    <<"-", "9", "2", "2", "3", "3", "7", "2", "0", "3", "6", "8", "5", "4",
       "7", "7", "5", "8", "0", "7">>,
    <<"-", "9", "2", "2", "3", "3", "7", "2", "0", "3", "6", "8", "5", "4",
       "7", "7", "5", "8", "0", "8">>,
    <<"9", "9", "9", "9", "9", "9", "9", "9", "9", "9", "9", "9", "9", "9",
       "9", "9", "9", "9", "9", "9">>,
    <<"(", "+", " ", "1", " ", "9", "9", "9", "9", "9", "9", "9", "9", "9",
       "9", "9", "9", "9", "9", "9", "9", "9", "9", "9", "9", ")">>,
    <<"0", "0", "0", "0", "0", "0", "0", "0", "0", "0", "0", "0", "0", "0",
       "0", "0", "0", "0", "0", "7">>,
    <<"-", "0">>,
    <<"+", "1", "1", "1", "1", "1", "1", "1", "1", "1", "1", "1", "1", "1",
       "1", "1", "1", "1", "1", "1", "x">> }

Inputs == ShortInputs \cup TestInputs \cup NumberInputs


----------------------------------------------------------------------------
(* interpret: Environment::new_root(), then evaluate_values on the root. *)

Init ==
  /\ heap = <<new_root>>
  /\ status = "running"
  /\ result = null
  /\ prog = <<>>
  /\ log = <<>>
  /\ source = <<>>
  /\ lexer = NewLexer
  /\ outcome = [k |-> "idle"]

(* One iteration of the loop of evaluate_values over the program:          *)
(* result = try!(evaluate_value(value, env.clone())).  prog is the part of *)
(* the program consumed so far.                                            *)
Evaluate(node) ==
  /\ status = "running"
  /\ Len(prog) < MaxProg
  /\ LET r == evaluate_value(from_node(node), ROOT,
                             [heap |-> heap, log |-> <<>>], 1) IN
       /\ heap' = r.st.heap
       /\ log' = r.st.log
       /\ result' = r.v
       /\ status' = IF r.ok THEN "running" ELSE "error"
  /\ prog' = Append(prog, node)
  /\ UNCHANGED <<source, lexer, outcome>>

(* The program ends: evaluate_values returns Ok(result). *)
Return ==
  /\ status = "running"
  /\ status' = "done"
  /\ UNCHANGED <<heap, result, prog, log, source, lexer, outcome>>

Next == (\E node \in ScopeExprs : Evaluate(node)) \/ Return

Spec == Init /\ [][Next]_vars

NextOrder == (\E node \in OrderExprs : Evaluate(node)) \/ Return

NextBranch == (\E node \in BranchExprs : Evaluate(node)) \/ Return

SpecBranch == Init /\ [][NextBranch]_vars

NextQuote == (\E node \in QuoteExprs : Evaluate(node)) \/ Return

SpecQuote == Init /\ [][NextQuote]_vars

SpecOrder == Init /\ [][NextOrder]_vars

NextArity == (\E node \in ArityExprs : Evaluate(node)) \/ Return

SpecArity == Init /\ [][NextArity]_vars

----------------------------------------------------------------------------
(* tokenize: one action for the construction of the lexer and the first    *)
(* advance of run, one for each arm of the match in its loop (the whole    *)
(* arm, with the parse_* calls it makes), and one for the break.           *)

InitLexer ==
  /\ heap = <<new_root>>
  /\ status = "running"
  /\ result = null
  /\ prog = <<>>
  /\ log = <<>>
  /\ source \in Inputs
  /\ lexer = NewLexer
  /\ outcome = [k |-> "new"]

(* The state an arm leaves: try! returns the SyntaxError to the caller of  *)
(* tokenize, a panic ends the task.                                        *)
Leave(r) ==
  /\ lexer' = r.lx
  /\ outcome' = IF r.k = "Ok" THEN [k |-> "running"]
                ELSE IF r.k = "Err" THEN [k |-> "Err", error |-> r.v]
                ELSE [k |-> "panic"]
  /\ UNCHANGED <<heap, status, result, prog, log, source>>

Running == outcome.k = "running"

(* self.advance() at the head of run *)
Start ==
  /\ outcome.k = "new"
  /\ lexer' = advance(lexer)
  /\ outcome' = [k |-> "running"]
  /\ UNCHANGED <<heap, status, result, prog, log, source>>

ArmOpenParen == Running /\ lexer.current = "(" /\ Leave(OnOpenParen(lexer))

ArmCloseParen == Running /\ lexer.current = ")" /\ Leave(OnCloseParen(lexer))

ArmQuote == Running /\ lexer.current = "'" /\ Leave(OnQuote(lexer))

ArmSign == Running /\ lexer.current \in {"+", "-"} /\ Leave(OnSign(lexer))

ArmHash == Running /\ lexer.current = "#" /\ Leave(OnHash(lexer))

ArmInitial == Running /\ lexer.current \in Initials /\ Leave(OnInitial(lexer))

ArmDigit == Running /\ lexer.current \in Digits /\ Leave(OnDigit(lexer))

ArmStringQuote ==
  Running /\ lexer.current = "\"" /\ Leave(OnStringQuote(lexer))

ArmWhitespace ==
  Running /\ lexer.current \in Whitespace /\ Leave(OnWhitespace(lexer))

ArmOther ==
  /\ Running
  /\ lexer.current \notin
       {None, "(", ")", "'", "+", "-", "#", "\""} \cup Initials \cup Digits
         \cup Whitespace
  /\ Leave(OnOther(lexer))

(* None => break; Ok(()), and tokenize returns Ok(lexer.tokens). *)
Break ==
  /\ Running
  /\ lexer.current = None
  /\ outcome' = [k |-> "Ok", tokens |-> lexer.tokens]
  /\ UNCHANGED <<heap, status, result, prog, log, source, lexer>>

NextLexer ==
  \/ Start
  \/ ArmOpenParen
  \/ ArmCloseParen
  \/ ArmQuote
  \/ ArmSign
  \/ ArmHash
  \/ ArmInitial
  \/ ArmDigit
  \/ ArmStringQuote
  \/ ArmWhitespace
  \/ ArmOther
  \/ Break

SpecLexer == InitLexer /\ [][NextLexer]_vars

----------------------------------------------------------------------------
(* Reading the call trace of the step just taken. *)

Ev == DOMAIN log

(* The return of the evaluate_value call that event i belongs to: of the   *)
(* call itself when i is its entry, of the enclosing one when i is an      *)
(* apply_function entry.                                                   *)
RetOf(i) ==
  CHOOSE j \in Ev :
    /\ j > i /\ log[j].k = "ret" /\ log[j].d = log[i].d
    /\ \A m \in (i + 1)..(j - 1) : ~(log[m].k = "ret" /\ log[m].d = log[i].d)

(* The evaluate_value calls made directly by call i, in trace order. *)
Kids(i) ==
  {j \in Ev : i < j /\ j < RetOf(i) /\ log[j].k = "eval"
              /\ log[j].d = log[i].d + 1}

Pos(S, j) == Cardinality({x \in S : x <= j})
Nth(S, m) == CHOOSE j \in S : Pos(S, j) = m

(* The applications of the native `op`, and of closures. *)
Calls(op) == {i \in Ev : log[i].k = "apply" /\ log[i].f = NativeFunction(op)}
ClosureCalls == {i \in Ev : log[i].k = "apply" /\ log[i].f.k = "scheme"}

(* A define / set! call whose operands have the right shape. *)
WellFormed(i) == Len(log[i].args) = 2 /\ log[i].args[1].t = "sym"

(* The nearest scope of the chain of e that binds key (0: none). *)
RECURSIVE Binder(_, _, _)
Binder(h, e, key) ==
  IF key \in DOMAIN h[e].values THEN e
  ELSE IF h[e].parent = 0 THEN 0 ELSE Binder(h, h[e].parent, key)

(* The enclosing scopes of e. *)
RECURSIVE Ancestors(_, _)
Ancestors(h, e) ==
  IF h[e].parent = 0 THEN {}
  ELSE {h[e].parent} \cup Ancestors(h, h[e].parent)

Last == prog[Len(prog)]
Earlier(node) == \E i \in 1..(Len(prog) - 1) : prog[i] = node

ErrUndefinedSet(name) ==
  RuntimeError("Can't set! an undefined variable", <<VSymbol(name)>>)
ErrDuplicate(name) == RuntimeError("Duplicate define", <<VSymbol(name)>>)
ErrNotFound(name) == RuntimeError("Identifier not found", <<VSymbol(name)>>)

----------------------------------------------------------------------------
(* C1: a set! of a name bound somewhere in the scope chain of the calling  *)
(* environment does not fail as undefined; when it succeeds it has         *)
(* replaced the value in the nearest scope that binds the name and has     *)
(* written no binding into a more local scope.                             *)
C1_SetWalksChain ==
  \A i \in Calls("set!") :
    LET name == log[i].args[1].s
        b == Binder(log[i].h, log[i].env, name)
        r == log[RetOf(i)]
    IN  (WellFormed(i) /\ b # 0) =>
          /\ ~r.ok => r.v # ErrUndefinedSet(name)
          /\ r.ok => \A j \in i..RetOf(i) :
                       (log[j].k = "set" /\ log[j].by = "set!"
                        /\ log[j].d = log[i].d)
                         => log[j].env = b /\ log[j].key = name /\ log[j].had

(* C1 is refuted by: (define x 1) (define s (lambda () (set! x 3))) (s). *)

(* C2: a call of the closure (lambda () x), bound to r at top level,       *)
(* yields the value the root environment binds x to at the time of the     *)
(* call, whatever defines and set!s came after the lambda was evaluated;   *)
(* it fails, x not found, exactly when the root does not bind x then.      *)
C2_ClosureSeesCurrent ==
  (prog # <<>> /\ Last = Call("r", <<>>) /\ Earlier(Define("r", Reader))) =>
    LET x == Env_get(heap, ROOT, "x") IN
    IF x.some THEN status \in {"running", "done"} /\ result = x.val
    ELSE status = "error" /\ result = ErrNotFound("x")

(* x was 1 when the closure was made, was set to 2, and the call yields 2. *)
C2_Witness ==
  /\ prog = <<Define("x", Num(1)), Define("r", Reader),
              SetBang("x", Num(2)), Call("r", <<>>)>>
  /\ status = "running"
  /\ result = VInteger(2)

(* C3: a closure call of the right arity creates one fresh environment     *)
(* whose parent is the captured environment, evaluates the arguments in    *)
(* order in the caller's environment and binds each to its parameter in    *)
(* the fresh one, evaluates the body there and returns the value of the    *)
(* last body expression; a symbol the fresh scope does not bind resolves   *)
(* through the captured chain.                                             *)
C3_LexicalApplication ==
  \A i \in ClosureCalls :
    LET f == log[i].f
        n == Len(f.argNames)
        args == log[i].args
        p == Len(log[i].h) + 1
        kids == Kids(i)
        r == log[RetOf(i)]
    IN  n = Len(args) =>
          /\ log[i + 1].k = "new" /\ log[i + 1].env = p
          /\ log[i + 1].parent = f.env
          /\ \A j \in (i + 2)..RetOf(i) :
               (log[j].k = "new" /\ log[j].d = log[i].d) => FALSE
          /\ \A j \in kids :
               LET m == Pos(kids, j)
                   rj == log[RetOf(j)]
               IN  IF m <= n
                     THEN /\ log[j].v = args[m]
                          /\ log[j].env = log[i].env
                          /\ rj.ok =>
                               LET w == log[RetOf(j) + 1] IN
                               /\ w.k = "set" /\ w.by = "apply" /\ w.env = p
                               /\ w.key = f.argNames[m] /\ w.val = rj.v
                     ELSE /\ m - n <= Len(f.body)
                          /\ log[j].v = f.body[m - n]
                          /\ log[j].env = p
          /\ r.ok => /\ Cardinality(kids) = n + Len(f.body)
                     /\ r.v = log[RetOf(Nth(kids, n + Len(f.body)))].v
          /\ \A j \in (i + 1)..(RetOf(i) - 1) :
               (/\ log[j].k = "eval" /\ log[j].env = p /\ log[j].v.t = "sym"
                /\ ~Env_has(log[j].h, p, log[j].v.s))
                 => LET c == Env_get(log[j].h, f.env, log[j].v.s)
                        rj == log[RetOf(j)]
                    IN  IF c.some THEN rj.ok /\ rj.v = c.val
                        ELSE ~rj.ok /\ rj.v = ErrNotFound(log[j].v.s)

(* (g 5): g binds x to 5 and calls (k x); k lists the root's x and its y. *)
C3_Witness ==
  /\ prog = <<Define("x", Num(1)), Define("k", Pairer), Define("g", Caller),
              Call("g", <<Num(5)>>)>>
  /\ status = "running"
  /\ result = VList(<<VInteger(1), VInteger(5)>>)

(* C4: define never replaces a binding: the name is unbound in the local   *)
(* scope when define writes it, and a define of a name the local scope     *)
(* binds fails as a duplicate and changes no environment.                  *)
C4_NoRedefinition ==
  /\ \A i \in Ev : (log[i].k = "set" /\ log[i].by = "define") => ~log[i].had
  /\ \A i \in Calls("define") :
       (WellFormed(i) /\ Env_has(log[i].h, log[i].env, log[i].args[1].s)) =>
         LET r == log[RetOf(i)] IN
         /\ ~r.ok /\ r.v = ErrDuplicate(log[i].args[1].s)
         /\ r.h = log[i].h

(* C4 is refuted by: (define x (and (define x 1) 2)). *)

(* C5: a define of a name the current scope does not bind evaluates its    *)
(* second operand, once, in the current environment; when that yields a    *)
(* value the define returns the empty list, the current scope binds the    *)
(* name to the value and a lookup from it finds that value; no enclosing   *)
(* scope is changed.                                                       *)
C5_DefineLocalOnly ==
  \A i \in Calls("define") :
    LET e == log[i].env
        name == log[i].args[1].s
        kids == Kids(i)
        r == log[RetOf(i)]
    IN  (WellFormed(i) /\ ~Env_has(log[i].h, e, name)) =>
          /\ Cardinality(kids) = 1
          /\ LET j == Nth(kids, 1)
                 rj == log[RetOf(j)]
             IN  /\ log[j].v = log[i].args[2]
                 /\ log[j].env = e
                 /\ rj.ok => /\ r.ok /\ r.v = null
                             /\ Env_has(r.h, e, name)
                             /\ r.h[e].values[name] = rj.v
                             /\ Env_get(r.h, e, name).val = rj.v
                 /\ ~rj.ok => ~r.ok /\ r.v = rj.v
          /\ \A q \in Ancestors(log[i].h, e) : r.h[q] = log[i].h[q]

(* (h) defines x as 9 in its own scope while the root binds x to 1. *)
C5_Witness ==
  /\ prog = <<Define("x", Num(1)), Define("h", Definer), Call("h", <<>>)>>
  /\ status = "running"
  /\ result = VInteger(9)
  /\ heap[ROOT].values["x"] = VInteger(1)
  /\ \E i \in Calls("define") : log[i].env # ROOT

----------------------------------------------------------------------------
(* The returns that report a failure, in trace order. *)
Fails == {i \in Ev : log[i].k = "ret" /\ ~log[i].ok}
First(S) == CHOOSE i \in S : \A j \in S : i <= j

(* C6: from the first RuntimeError raised in a step on, the trace holds    *)
(* nothing but the returns of the enclosing evaluations, each with that    *)
(* same error and with the heap as it was when the error was raised; the   *)
(* step ends in status error with that error as the result, and no further *)
(* expression of the program is evaluated.                                 *)
C6_FirstErrorWins ==
  /\ Fails # {} =>
       LET e == First(Fails) IN
       /\ \A j \in e..Len(log) :
            /\ log[j].k = "ret" /\ ~log[j].ok
            /\ log[j].v = log[e].v /\ log[j].h = log[e].h
       /\ log[Len(log)].d = 1
       /\ status = "error" /\ result = log[e].v /\ heap = log[e].h
  /\ status = "error" => Fails # {} /\ ~ENABLED NextOrder

(* (list (define z 1) (error "a") (define v 1)) fails with "a": z is       *)
(* bound, v is not.                                                        *)
C6_Witness ==
  /\ prog = <<FailingList>>
  /\ status = "error"
  /\ result = RuntimeError("{}", <<VString("a")>>)
  /\ Env_has(heap, ROOT, "z") /\ ~Env_has(heap, ROOT, "v")

(* The operand evaluations of call i: all its direct evaluations for a     *)
(* native, the first Len(args) of them for a closure.                      *)
Operands(i) ==
  IF log[i].f.k = "native" THEN Kids(i)
  ELSE {j \in Kids(i) : Pos(Kids(i), j) <= Len(log[i].args)}

(* The environment created for closure call i (0 for a native). *)
ProcEnvOf(i) == IF log[i].f.k = "native" THEN 0 ELSE Len(log[i].h) + 1

(* C7: in a call of +, -, list, and, or or of a closure, the m-th operand  *)
(* evaluation is that of the m-th operand, in the calling environment, and *)
(* it starts from the heap the evaluation of operand m-1 returned with     *)
(* (but for the parameter just bound in the closure's new environment).    *)
C7_LeftToRight ==
  \A i \in Calls("+") \cup Calls("-") \cup Calls("list") \cup Calls("and")
           \cup Calls("or") \cup ClosureCalls :
    \A j \in Operands(i) :
      LET m == Pos(Operands(i), j) IN
      /\ log[j].v = log[i].args[m]
      /\ log[j].env = log[i].env
      /\ m > 1 =>
           LET before == log[RetOf(Nth(Operands(i), m - 1))] IN
           /\ RetOf(Nth(Operands(i), m - 1)) < j
           /\ before.ok
           /\ \A q \in DOMAIN before.h :
                q # ProcEnvOf(i) => log[j].h[q] = before.h[q]

(* (- (and (define y 1) 5) y) is 5 - 1. *)
C7_Witness ==
  /\ prog = <<Call("-", <<BindY, Sym("y")>>)>>
  /\ status = "running"
  /\ result = VInteger(4)

----------------------------------------------------------------------------
(* C8: and / or evaluate their operands in order and stop at the first     *)
(* one that is #f (and) or is not #f (or): every operand evaluated before  *)
(* the last evaluated one did not stop the call, nothing happens after the *)
(* last evaluated one, whose outcome is the outcome of the call, and the   *)
(* call stops short of its last operand only on a stopping value or an     *)
(* error; without operands and is #t and or is #f.                         *)
C8_ShortCircuit ==
  \A op \in {"and", "or"} :
    \A i \in Calls(op) :
      LET kids == Kids(i)
          args == log[i].args
          r == log[RetOf(i)]
          stops(v) == IF op = "and" THEN v = VBoolean(FALSE)
                      ELSE v # VBoolean(FALSE)
      IN  /\ \A j \in kids :
               /\ log[j].v = args[Pos(kids, j)]
               /\ Pos(kids, j) < Cardinality(kids) =>
                    log[RetOf(j)].ok /\ ~stops(log[RetOf(j)].v)
          /\ kids = {} =>
               /\ args = <<>> /\ RetOf(i) = i + 1 /\ r.ok
               /\ r.v = VBoolean(op = "and")
          /\ kids # {} =>
               LET rl == log[RetOf(Nth(kids, Cardinality(kids)))] IN
               /\ RetOf(i) = RetOf(Nth(kids, Cardinality(kids))) + 1
               /\ r.ok = rl.ok /\ r.v = rl.v /\ r.h = rl.h
               /\ (rl.ok /\ ~stops(rl.v)) => Cardinality(kids) = Len(args)

(* (and #f (error "boom")) is #f and (or 1 (error "boom")) is 1. *)
C8_Witness ==
  /\ prog = <<Call("and", <<NBoolean(FALSE), Error("boom")>>),
              Call("or", <<Num(1), Error("boom")>>)>>
  /\ status = "running"
  /\ result = VInteger(1)

(* C9: an if with three operands evaluates operand 0 once and, when that   *)
(* yields a value, exactly one more operand: operand 2 when the value is   *)
(* Boolean(false), operand 1 for every other value; the outcome of that    *)
(* evaluation is the outcome of the if.                                    *)
C9_IfOneBranch ==
  \A i \in Calls("if") :
    LET kids == Kids(i)
        args == log[i].args
        r == log[RetOf(i)]
    IN  Len(args) = 3 =>
          /\ kids # {}
          /\ log[Nth(kids, 1)].v = args[1]
          /\ log[Nth(kids, 1)].env = log[i].env
          /\ LET c == log[RetOf(Nth(kids, 1))] IN
             IF ~c.ok
               THEN Cardinality(kids) = 1 /\ ~r.ok /\ r.v = c.v /\ r.h = c.h
               ELSE /\ Cardinality(kids) = 2
                    /\ LET b == Nth(kids, 2) IN
                       /\ log[b].v = IF c.v = VBoolean(FALSE) THEN args[3]
                                     ELSE args[2]
                       /\ log[b].env = log[i].env
                       /\ log[b].h = c.h
                       /\ RetOf(i) = RetOf(b) + 1
                       /\ r.ok = log[RetOf(b)].ok /\ r.v = log[RetOf(b)].v

(* (if 0 (define a 1) (define b 2)) binds a and not b; then                *)
(* (if #f (define a 1) (define b 2)) binds b.                              *)
C9_Witness ==
  /\ prog = <<IfDefine(Num(0)), IfDefine(NBoolean(FALSE))>>
  /\ status = "running"
  /\ DOMAIN heap[ROOT].values = PREDEFINED_FUNCTIONS \cup {"a", "b"}
  /\ Cardinality(Calls("if")) = 1

----------------------------------------------------------------------------
(* What quasiquote is to do, stated on the data: the unquote forms of v    *)
(* that are not inside another unquote form, left to right, and v with     *)
(* those forms replaced, in that order, by the values vals.                *)

Escape(v) == v.t = "list" /\ v.l # <<>> /\ v.l[1] = VSymbol("unquote")

RECURSIVE Escapes(_)
RECURSIVE EscapesOfAll(_, _)
EscapesOfAll(l, i) ==
  IF i > Len(l) THEN <<>> ELSE Escapes(l[i]) \o EscapesOfAll(l, i + 1)

Escapes(v) ==
  IF v.t # "list" THEN <<>>
  ELSE IF Escape(v) THEN <<v>> ELSE EscapesOfAll(v.l, 1)

RECURSIVE Filled(_, _)
RECURSIVE FilledAll(_, _, _)
FilledAll(l, i, vals) ==
  IF i > Len(l) THEN <<>>
  ELSE <<Filled(l[i], vals)>>
       \o FilledAll(l, i + 1, SubSeq(vals, Len(Escapes(l[i])) + 1, Len(vals)))

Filled(v, vals) ==
  IF v.t # "list" THEN v
  ELSE IF Escape(v) THEN vals[1] ELSE VList(FilledAll(v.l, 1, vals))

ErrUnquote(form) ==
  RuntimeError("Must supply exactly one argument to unquote", form.l)

(* C10: (quote v) evaluates nothing, changes nothing and returns v.        *)
(* (quasiquote v) evaluates, in order and in the calling environment, the  *)
(* argument of each unquote form of v up to the first form that does not   *)
(* have exactly one argument, at which it fails; when every form has one   *)
(* argument and every evaluation yields a value it returns v with each     *)
(* form replaced by the value of its argument; a failing evaluation fails  *)
(* the call.                                                               *)
C10_QuoteQuasiquote ==
  /\ \A i \in Calls("quote") :
       Len(log[i].args) = 1 =>
         LET r == log[RetOf(i)] IN
         /\ RetOf(i) = i + 1
         /\ r.ok /\ r.v = log[i].args[1] /\ r.h = log[i].h
  /\ \A i \in Calls("quasiquote") :
       Len(log[i].args) = 1 =>
         LET v == log[i].args[1]
             forms == Escapes(v)
             kids == Kids(i)
             bad == {m \in 1..Len(forms) : Len(forms[m].l) # 2}
             r == log[RetOf(i)]
             vals == [m \in 1..Cardinality(kids) |->
                        log[RetOf(Nth(kids, m))].v]
             allOk == \A j \in kids : log[RetOf(j)].ok
         IN  /\ Cardinality(kids) <= Len(forms)
             /\ \A j \in kids :
                  LET m == Pos(kids, j) IN
                  /\ \A b \in bad : m < b
                  /\ log[j].v = forms[m].l[2]
                  /\ log[j].env = log[i].env
                  /\ m < Cardinality(kids) => log[RetOf(j)].ok
             /\ bad # {} => ~r.ok
             /\ (bad # {} /\ allOk) =>
                  /\ Cardinality(kids) = First(bad) - 1
                  /\ r.v = ErrUnquote(forms[First(bad)])
             /\ ~allOk => ~r.ok /\ r.v = log[RetOf(Nth(kids, Cardinality(kids)))].v
             /\ (bad = {} /\ allOk) =>
                  /\ Cardinality(kids) = Len(forms)
                  /\ r.ok /\ r.v = Filled(v, vals)

(* With b bound to 5, (quote (a (unquote b))) is (a (unquote b)) and       *)
(* (quasiquote (a (unquote b))) is (a 5).                                  *)
C10_Witness ==
  /\ prog = <<Define("b", Num(5)),
              Quote(NList(<<Sym("a"), Unquote(<<Sym("b")>>)>>)),
              Quasi(NList(<<Sym("a"), Unquote(<<Sym("b")>>)>>))>>
  /\ status = "running"
  /\ result = VList(<<VSymbol("a"), VInteger(5)>>)

----------------------------------------------------------------------------
(* Whether call i has a number of operands its callee does not take. *)
ArityViolated(i) ==
  LET f == log[i].f
      n == Len(log[i].args)
  IN  IF f.k = "scheme" THEN n # Len(f.argNames)
      ELSE CASE f.op \in {"define", "set!", "-"} -> n # 2
             [] f.op = "if" -> n # 3
             [] f.op \in {"quote", "quasiquote", "error"} -> n # 1
             [] f.op \in {"+", "lambda"} -> n < 2
             [] OTHER -> FALSE

(* The RuntimeError of a call of f with the wrong number of operands. *)
ErrArity(f, args) ==
  IF f.k = "scheme"
    THEN RuntimeError("Must supply exactly {} arguments to function", args)
  ELSE CASE f.op = "define" ->
              RuntimeError("Must supply exactly two arguments to define", args)
         [] f.op = "set!" ->
              RuntimeError("Must supply exactly two arguments to set!", args)
         [] f.op = "-" ->
              RuntimeError("Must supply exactly two arguments to -", args)
         [] f.op = "if" ->
              RuntimeError("Must supply exactly three arguments to if", args)
         [] f.op = "quote" ->
              RuntimeError("Must supply exactly one argument to quote", args)
         [] f.op = "quasiquote" ->
              RuntimeError("Must supply exactly one argument to quasiquote",
                           args)
         [] f.op = "error" ->
              RuntimeError("Must supply exactly one arguments to error", args)
         [] f.op = "+" ->
              RuntimeError("Must supply at least two arguments to +", args)
         [] f.op = "lambda" ->
              RuntimeError("Must supply at least two arguments to lambda",
                           args)

(* C11: a call whose operand count violates the arity of its callee        *)
(* returns at once, with the RuntimeError of that callee's arity and with  *)
(* the heap as it was when the call started: no operand is evaluated, no   *)
(* environment is created or written, and the step ends in status error    *)
(* with that heap.                                                         *)
C11_ArityBeforeOperands ==
  \A i \in Ev :
    (log[i].k = "apply" /\ ArityViolated(i)) =>
      LET j == RetOf(i) IN
      /\ j = i + 1
      /\ ~log[j].ok
      /\ log[j].v = ErrArity(log[i].f, log[i].args)
      /\ log[j].h = log[i].h
      /\ status = "error" /\ result = log[j].v /\ heap = log[i].h

(* (i (define z 1) 2), with i a closure of one parameter, fails on its     *)
(* arity, and so does (+ (and (define z 1) 5)): z stays unbound and no     *)
(* environment has been created.                                           *)
C11_Witness ==
  /\ Len(prog) = 2 /\ prog[1] = Define("i", Same)
  /\ Last \in {Call("i", <<BindZ, Num(2)>>),
               Call("+", <<Call("and", <<BindZ, Num(5)>>)>>)}
  /\ status = "error"
  /\ Len(heap) = 1 /\ ~Env_has(heap, ROOT, "z")
  /\ \E i \in Ev : log[i].k = "apply" /\ ArityViolated(i)

----------------------------------------------------------------------------
(* The environments a value holds a reference to: the captured environment *)
(* of a closure, and those of the elements of a list.                      *)
RECURSIVE EnvsOf(_)
EnvsOf(v) ==
  IF v.t = "proc" THEN (IF v.f.k = "scheme" THEN {v.f.env} ELSE {})
  ELSE IF v.t = "list" THEN UNION {EnvsOf(v.l[i]) : i \in DOMAIN v.l}
  ELSE {}

(* The environments that environment e of heap h holds a reference to:     *)
(* its parent and the environments of the values stored in it.             *)
Refs(h, e) ==
  (IF h[e].parent = 0 THEN {} ELSE {h[e].parent})
    \cup UNION {EnvsOf(h[e].values[key]) : key \in DOMAIN h[e].values}

(* The environments reached from those of S along references. *)
RECURSIVE ReachedFrom(_, _)
ReachedFrom(h, S) ==
  LET T == S \cup UNION {Refs(h, e) : e \in S} IN
  IF T = S THEN S ELSE ReachedFrom(h, T)

(* C12: the references among environments (parent links, and the captured  *)
(* environment of every closure stored as a value in an environment) never *)
(* form a cycle: no environment is reached from the environments it refers *)
(* to.                                                                     *)
C12_NoReferenceCycle ==
  \A e \in DOMAIN heap : e \notin ReachedFrom(heap, Refs(heap, e))

----------------------------------------------------------------------------
(* Reading the tokens against the input. *)

(* The character of the input right after token k (None: end of input). *)
Follower(k) ==
  IF lexer.ends[k] >= Len(source) THEN None ELSE source[lexer.ends[k] + 1]

Delimiters == Whitespace \cup {")", None}

Returned == outcome.k \in {"Ok", "Err", "panic"}

ErrDelimiter == "Unexpected character when looking for a delimiter"

(* C13, as claimed: in an accepted input every token other than an open    *)
(* parenthesis is followed by whitespace, a close parenthesis or the end   *)
(* of input, and an input with such a token followed by anything else is   *)
(* rejected with a SyntaxError.                                            *)
C13_EveryTokenDelimited ==
  LET Bad == {k \in DOMAIN lexer.tokens :
                lexer.tokens[k] # OpenParen /\ Follower(k) \notin Delimiters}
  IN  /\ outcome.k = "Ok" => Bad = {}
      /\ (Returned /\ Bad # {}) => outcome.k = "Err"

IsAtom(token) == token.t \in {"Identifier", "Integer", "Boolean", "String"}

(* C13, amended: in an accepted input every identifier, integer, boolean   *)
(* and string token is followed by whitespace, a close parenthesis or the  *)
(* end of input; as soon as such a token is followed by anything else the  *)
(* input is rejected with the delimiter SyntaxError at that character, the *)
(* token being the last one lexed.  (Parenthesis and quote tokens may be   *)
(* followed by anything.)                                                  *)
C13_AtomsDelimited ==
  LET Bad == {k \in DOMAIN lexer.tokens :
                IsAtom(lexer.tokens[k]) /\ Follower(k) \notin Delimiters}
  IN  /\ outcome.k = "Ok" => Bad = {}
      /\ \A k \in Bad :
           /\ k = Len(lexer.tokens)
           /\ outcome.k = "Err"
           /\ outcome.error.message = ErrDelimiter
           /\ outcome.error.c = Follower(k)
           /\ lexer.chars = lexer.ends[k] + 1

(* t)1( : the identifier is followed by a close parenthesis, the close     *)
(* parenthesis directly by an integer, and the integer by an open          *)
(* parenthesis, where the input is rejected.                               *)
C13_Witness ==
  /\ source = <<"t", ")", "1", "(">>
  /\ lexer.tokens = <<Identifier(<<"t">>), CloseParen,
                      Integer([neg |-> FALSE, mag |-> <<"1">>])>>
  /\ outcome = [k |-> "Err", error |-> SyntaxError(ErrDelimiter, "(", 1, 4)]

(* The newlines of the input before index p, and the last of them (0 when  *)
(* there is none).                                                         *)
NewlinesBefore(p) == {i \in 1..(p - 1) : source[i] = "\n"}
LastNewlineBefore(p) ==
  IF NewlinesBefore(p) = {} THEN 0
  ELSE CHOOSE i \in NewlinesBefore(p) : \A j \in NewlinesBefore(p) : j <= i

(* C14: a SyntaxError is reported at the character lexing failed at, the   *)
(* one the lexer is on (the end of input being one past the last           *)
(* character): its line is 1 plus the number of newlines before it, its    *)
(* column its distance from the last newline before it, so that the first  *)
(* character of the input and of every line has column 1.                  *)
C14_ErrorPosition ==
  outcome.k = "Err" =>
    LET p == lexer.chars
        e == outcome.error
    IN  /\ p \in 1..(Len(source) + 1)
        /\ e.c = (IF p > Len(source) THEN None ELSE source[p])
        /\ e.line = 1 + Cardinality(NewlinesBefore(p))
        /\ e.column = p - LastNewlineBefore(p)

(* (+ 2 3) newline (+ 1 2-) fails at the - of the second line, its seventh *)
(* character.                                                              *)
C14_Witness ==
  /\ source = <<"(", "+", " ", "2", " ", "3", ")", "\n",
                "(", "+", " ", "1", " ", "2", "-", ")">>
  /\ outcome = [k |-> "Err", error |-> SyntaxError(ErrDelimiter, "-", 2, 7)]

(* C15: tokenize returns a token list or a SyntaxError for every input:    *)
(* it never ends in any other way.                                         *)
C15_TokenizeTotal == outcome.k \in {"idle", "new", "running", "Ok", "Err"}

=============================================================================
